---------------------------- MODULE Spec2Model ----------------------------
(***************************************************************************)
(* A model of the result assembly and progressive disclosure pipeline of   *)
(* nli_mcp.py: the search proxy (handle_search_nli), the response composer *)
(* with its image resolution (handle_generate_response) and the batch      *)
(* streamer (stream_batches).                                              *)
(*                                                                         *)
(* One behaviour is one invocation of one operation: Init is the idle      *)
(* server, a Call action draws the arguments, and the following actions    *)
(* are the steps of the handler between its suspension points.             *)
(*                                                                         *)
(* Text is modelled as a sequence of one-character strings, so that        *)
(* startswith, endswith, lower, strip and the substring test are computed. *)
(***************************************************************************)
EXTENDS Integers, Sequences, FiniteSets, TLC

VARIABLES
    op,          \* the operation invoked in this behaviour
    sb_pc,       \* stream_batches: "idle", "active", "done" or "raised"
    sb_len,      \* stream_batches: len(search_data["items"])
    sb_first,    \* stream_batches: the offset argument of the invocation
    sb_batch,    \* stream_batches: the batch_size argument
    sb_offset,   \* stream_batches: the offset of the current recursion level
    sb_depth,    \* stream_batches: number of nested stream_batches frames
    sb_reports,  \* stream_batches: the TextContent reports, in emission order
    se_pc,       \* handle_search_nli: "idle", "fetching", "returned", "raised"
    se_args,     \* handle_search_nli: the argument mapping
    se_reply,    \* handle_search_nli: what the backend call produced
    se_result,   \* handle_search_nli: the list of payloads returned
    gr_pc,       \* handle_generate_response: position in the handler
    gr_args,     \* handle_generate_response: the argument mapping
    gr_data,     \* handle_generate_response: search_data (parsed envelope)
    gr_images,   \* handle_generate_response: items_images
    gr_queue,    \* handle_generate_response: items_for_manifest
    gr_fetch,    \* handle_generate_response: manifest task results, by position
    gr_out,      \* handle_generate_response: the list of payloads returned
    gr_reply,    \* handle_generate_response: how the search backend call ended
    gr_served,   \* what the manifest endpoint answers for each queued record
    ct_pc,       \* handle_call_tool: "idle", "fetching", "returned" or "raised"
    ct_call,     \* handle_call_tool: the tool name and its arguments
    ct_out,      \* handle_call_tool: the payloads returned, or the exception
    gf_in,       \* get_simple_field: the raw value of the field
    gf_out,      \* get_simple_field: what the call produced
    pg_pc,       \* paging consumer: "idle", "calling", "ended" or "failed"
    pg_total,    \* paging consumer: total_results of the backend
    pg_visited   \* paging consumer: the offsets requested so far

sbVars == <<sb_pc, sb_len, sb_first, sb_batch, sb_offset, sb_depth, sb_reports>>
seVars == <<se_pc, se_args, se_reply, se_result>>
grVars == <<gr_pc, gr_args, gr_data, gr_images, gr_queue, gr_fetch, gr_out, gr_reply, gr_served>>
ctVars == <<ct_pc, ct_call, ct_out>>
gfVars == <<gf_in, gf_out>>
pgVars == <<pg_pc, pg_total, pg_visited>>
auxVars == <<ctVars, gfVars, pgVars>>
vars == <<op, sbVars, seVars, grVars, auxVars>>

\* Optional values: None is the empty sequence and a present value x is <<x>>.
None == <<>>
Some(x) == <<x>>

-----------------------------------------------------------------------------
(* Bounds of the model. *)

MaxLen == 25          \* longest item list given to stream_batches
MaxBatch == 10        \* largest batch_size
NegBatch == 1         \* batch_size ranges down to -NegBatch
MaxStart == 2         \* largest starting offset of stream_batches
NegStart == 1         \* the starting offset ranges down to -NegStart
RecursionLimit == 40  \* frames the interpreter allows before RecursionError
MaxBackend == 5       \* longest item list in a backend response
MaxOffset == 6        \* largest offset argument of a search
MaxLimit == 3         \* largest limit argument of a search
MaxTotal == 7         \* largest total_results in a backend response

-----------------------------------------------------------------------------
(* Python built-ins used by the handlers. *)

Min(a, b) == IF a <= b THEN a ELSE b
Max(a, b) == IF a >= b THEN a ELSE b

\* The index i of a slice bound, clamped the way s[lo:hi] clamps it.
SliceIndex(i, n) == IF i < 0 THEN Max(0, n + i) ELSE Min(i, n)

\* s[lo:hi] of a Python list (0-based, hi exclusive).
PySlice(s, lo, hi) == SubSeq(s, SliceIndex(lo, Len(s)) + 1, SliceIndex(hi, Len(s)))

-----------------------------------------------------------------------------
(* stream_batches *)

\* search_data["items"]: the items are told apart by their position.
StreamItems(n) == [i \in 1..n |-> i]

BatchWindowMutant(items, offset, batch_size) == PySlice(items, offset + 1, offset + 1 + batch_size)
\* context_part["items"] = items[offset:offset+batch_size]
BatchWindow(items, offset, batch_size) == PySlice(items, offset, offset + batch_size)

NextOffsetMutant(offset, batch_size) == offset + batch_size + 1
\* next_offset = offset + batch_size
NextOffset(offset, batch_size) == offset + batch_size

\* batch_start = offset + 1
BatchStart(offset) == offset + 1

BatchEndMutant(offset, batch_size, n) == offset + batch_size
\* batch_end = min(offset + batch_size, len(items))
BatchEnd(offset, batch_size, n) == Min(offset + batch_size, n)

RemainingMutant(offset, batch_size, n) == Max(0, n - BatchStart(offset))
\* Remaining items: max(0, len(items) - batch_end)
Remaining(offset, batch_size, n) == Max(0, n - BatchEnd(offset, batch_size, n))

\* The prompt of one window, reduced to the values it prints.
BatchReport(offset, batch_size, n) ==
    [kind |-> "batch",
     offset |-> offset,
     window |-> BatchWindow(StreamItems(n), offset, batch_size),
     batchStart |-> BatchStart(offset),
     batchEnd |-> BatchEnd(offset, batch_size, n),
     remaining |-> Remaining(offset, batch_size, n),
     nextOffset |-> Some(NextOffset(offset, batch_size))]

\* The completion message, reduced to the values it prints.
FinalReport(offset, n) ==
    [kind |-> "final", offset |-> offset, processed |-> n]

StreamCall ==
    /\ op = "none"
    /\ op' = "stream_batches"
    /\ \E n \in 0..MaxLen, o \in (0 - NegStart)..MaxStart, b \in (0 - NegBatch)..MaxBatch :
          /\ sb_len' = n
          /\ sb_first' = o
          /\ sb_offset' = o
          /\ sb_batch' = b
    /\ sb_pc' = "active"
    /\ sb_depth' = 1
    /\ sb_reports' = <<>>
    /\ UNCHANGED <<seVars, grVars, auxVars>>

\* if offset >= len(items): return [final_prompt]
StreamComplete ==
    /\ sb_pc = "active"
    /\ sb_offset >= sb_len
    /\ sb_reports' = Append(sb_reports, FinalReport(sb_offset, sb_len))
    /\ sb_pc' = "done"
    /\ UNCHANGED <<op, sb_len, sb_first, sb_batch, sb_offset, sb_depth, seVars, grVars, auxVars>>

\* The active branch: build the prompt, then await stream_batches(next_offset).
StreamBatch ==
    /\ sb_pc = "active"
    /\ sb_offset < sb_len
    /\ sb_depth < RecursionLimit
    /\ sb_reports' = Append(sb_reports, BatchReport(sb_offset, sb_batch, sb_len))
    /\ sb_offset' = NextOffset(sb_offset, sb_batch)
    /\ sb_depth' = sb_depth + 1
    /\ UNCHANGED <<op, sb_pc, sb_len, sb_first, sb_batch, seVars, grVars, auxVars>>

\* The nested call that exceeds the interpreter's frame limit raises
\* RecursionError, which no frame of stream_batches catches.
StreamOverflow ==
    /\ sb_pc = "active"
    /\ sb_offset < sb_len
    /\ sb_depth >= RecursionLimit
    /\ sb_pc' = "raised"
    /\ sb_reports' = <<>>
    /\ UNCHANGED <<op, sb_len, sb_first, sb_batch, sb_offset, sb_depth, seVars, grVars, auxVars>>

-----------------------------------------------------------------------------
(* Text: str methods used by the handlers, on sequences of characters. *)

UpperChars == <<"A", "B", "C", "D", "E", "F", "G", "H", "I", "J", "K", "L", "M", "N", "O", "P", "Q", "R", "S", "T", "U", "V", "W", "X", "Y", "Z">>
LowerChars == <<"a", "b", "c", "d", "e", "f", "g", "h", "i", "j", "k", "l", "m", "n", "o", "p", "q", "r", "s", "t", "u", "v", "w", "x", "y", "z">>

\* str.lower(), one character.
LowerChar(c) ==
    IF \E k \in 1..Len(UpperChars) : UpperChars[k] = c
    THEN LowerChars[CHOOSE k \in 1..Len(UpperChars) : UpperChars[k] = c]
    ELSE c

\* str.lower()
Lower(s) == [i \in 1..Len(s) |-> LowerChar(s[i])]

\* str.startswith(p)
StartsWith(s, p) == Len(s) >= Len(p) /\ SubSeq(s, 1, Len(p)) = p

\* str.endswith(p)
EndsWith(s, p) == Len(s) >= Len(p) /\ SubSeq(s, Len(s) - Len(p) + 1, Len(s)) = p

\* p in s
Contains(s, p) == \E i \in 1..(Len(s) - Len(p) + 1) : SubSeq(s, i, i + Len(p) - 1) = p

\* str.strip()
RECURSIVE LStrip(_)
LStrip(s) == IF s # <<>> /\ Head(s) = " " THEN LStrip(Tail(s)) ELSE s
RECURSIVE RStrip(_)
RStrip(s) == IF s # <<>> /\ s[Len(s)] = " " THEN RStrip(SubSeq(s, 1, Len(s) - 1)) ELSE s
Strip(s) == RStrip(LStrip(s))

\* str.replace("'", '"')
ReplaceQuotes(s) == [i \in 1..Len(s) |-> IF s[i] = "'" THEN "\"" ELSE s[i]]

HttpPrefix == <<"h", "t", "t", "p", ":", "/", "/">>
HttpsPrefix == <<"h", "t", "t", "p", "s", ":", "/", "/">>
JpgSuffix == <<".", "j", "p", "g">>
PngSuffix == <<".", "p", "n", "g">>
LogoWord == <<"l", "o", "g", "o">>
ValueMarker == <<"@", "v", "a", "l", "u", "e">>

\* thumbnail.startswith(("http://", "https://"))
HasScheme(s) == StartsWith(s, HttpPrefix) \/ StartsWith(s, HttpsPrefix)

-----------------------------------------------------------------------------
(* get_simple_field and extract_value_from_json *)

\* A raw field value: absent, a string, or a list of strings.
Absent == [t |-> "absent", s |-> <<>>, l |-> <<>>]
StrVal(s) == [t |-> "str", s |-> s, l |-> <<>>]
ListVal(l) == [t |-> "list", s |-> <<>>, l |-> l]

\* str(value) of a list of strings: ['a', 'b'].
RECURSIVE ReprTail(_)
ReprTail(l) ==
    IF l = <<>> THEN <<>>
    ELSE <<",", " ", "'">> \o Head(l) \o <<"'">> \o ReprTail(Tail(l))
ReprList(l) ==
    IF l = <<>> THEN <<"[", "]">>
    ELSE <<"[", "'">> \o Head(l) \o <<"'">> \o ReprTail(Tail(l)) \o <<"]">>

\* json.loads of a text that is one object {"@value": "<payload>"}: the
\* payload, or None where the text is not that object (JSONDecodeError, or no
\* '@value' key).
ValueObjectOpen == <<"{", "\"", "@", "v", "a", "l", "u", "e", "\"", ":", " ", "\"">>
ValueObjectClose == <<"\"", "}">>
ParseValueObject(s) ==
    LET body == SubSeq(s, Len(ValueObjectOpen) + 1, Len(s) - Len(ValueObjectClose))
    IN  IF /\ Len(s) >= Len(ValueObjectOpen) + Len(ValueObjectClose)
           /\ StartsWith(s, ValueObjectOpen)
           /\ EndsWith(s, ValueObjectClose)
           /\ \A i \in 1..Len(body) : body[i] \notin {"\"", "\\"}
        THEN Some(body)
        ELSE None

\* extract_value_from_json(value) for a string value.
ExtractValueFromJson(s) ==
    LET parsed == ParseValueObject(ReplaceQuotes(s))
    IN  IF parsed # None THEN Some(Strip(parsed[1])) ELSE Some(Strip(s))

\* get_simple_field(item, key_name): [exc, value], where exc is the exception
\* raised (value[0] of an empty list) and value is the string or None.
GetSimpleField(value) ==
    CASE value.t = "absent" -> [exc |-> None, value |-> None]
      [] value.t = "str" ->
            IF Contains(value.s, ValueMarker)
            THEN [exc |-> None, value |-> ExtractValueFromJson(value.s)]
            ELSE [exc |-> None, value |-> Some(Strip(value.s))]
      [] value.t = "list" ->
            IF value.l = <<>>
            THEN [exc |-> Some("IndexError"), value |-> None]
            ELSE IF Contains(value.l[1], ValueMarker)
            THEN [exc |-> None, value |-> ExtractValueFromJson(value.l[1])]
            ELSE [exc |-> None, value |-> Some(Strip(ReprList(value.l)))]

-----------------------------------------------------------------------------
(* The records and the manifests of the model. *)

Catalogue == <<
    \* a direct thumbnail
    [recordid |-> StrVal(<<"r", "1">>), title |-> StrVal(<<"T", "1">>), thumbnail |-> StrVal(<<"h", "t", "t", "p", ":", "/", "/", "n", "/", "a", ".", "j", "p", "g">>)],
    \* no thumbnail
    [recordid |-> StrVal(<<"r", "2">>), title |-> StrVal(<<" ", "T", "2">>), thumbnail |-> Absent],
    \* a thumbnail that is no URL, no title
    [recordid |-> StrVal(<<"r", "3">>), title |-> Absent, thumbnail |-> StrVal(<<"n", "/", "b", ".", "j", "p", "g">>)],
    \* neither thumbnail nor recordid
    [recordid |-> Absent, title |-> StrVal(<<"T", "4">>), thumbnail |-> Absent],
    \* list-valued fields, an empty thumbnail
    [recordid |-> ListVal(<<<<"r", "5">>>>), title |-> ListVal(<<<<"T", "5">>, <<"x">>>>), thumbnail |-> StrVal(<<>>)],
    \* a padded https thumbnail, no recordid, a value-object title
    [recordid |-> Absent, title |-> StrVal(<<"{", "'", "@", "v", "a", "l", "u", "e", "'", ":", " ", "'", " ", "T", "6", "'", "}">>), thumbnail |-> StrVal(<<" ", "h", "t", "t", "p", "s", ":", "/", "/", "n", "/", "c", ".", "p", "n", "g", " ">>)],
    \* an empty list as thumbnail
    [recordid |-> StrVal(<<"r", "7">>), title |-> StrVal(<<"T", "7">>), thumbnail |-> ListVal(<<>>)]
>>

\* Builders of a manifest document; every level may lack its key.
Image(id) == [resource |-> Some([id |-> Some(id)])]
ImageNoId == [resource |-> Some([id |-> None])]
ImageNoResource == [resource |-> None]
Canvas(images) == [images |-> Some(images)]
CanvasNoImages == [images |-> None]
Sequence(canvases) == [canvases |-> Some(canvases)]
SequenceNoCanvases == [canvases |-> None]
Manifest(sequences) == [isObject |-> TRUE, sequences |-> Some(sequences)]
ManifestNoSequences == [isObject |-> TRUE, sequences |-> None]
ManifestNotObject == [isObject |-> FALSE, sequences |-> None]

IdLogoA == <<"l", "o", "g", "o", "A", ".", "p", "n", "g">>
IdReal == <<"r", "e", "a", "l", ".", "j", "p", "g">>
IdGif == <<"h", "t", "t", "p", ":", "/", "/", "n", "/", "x", ".", "g", "i", "f">>
IdSecond == <<"h", "t", "t", "p", ":", "/", "/", "n", "/", "s", ".", "j", "p", "g">>
IdLogoUpper == <<"h", "t", "t", "p", ":", "/", "/", "n", "/", "L", "O", "G", "O", ".", "P", "N", "G">>
IdUpperPng == <<"h", "t", "t", "p", ":", "/", "/", "n", "/", "p", ".", "P", "N", "G">>
IdQ == <<"h", "t", "t", "p", "s", ":", "/", "/", "n", "/", "q", ".", "j", "p", "g">>

Manifests == {
    \* a logo on the first canvas, the image on the second
    Manifest(<< Sequence(<< Canvas(<<Image(IdLogoA)>>), Canvas(<<Image(IdReal)>>) >>) >>),
    ManifestNoSequences,
    Manifest(<<>>),
    \* nothing qualifies in the first sequence, an image in the second
    Manifest(<< Sequence(<< Canvas(<<Image(IdGif)>>) >>),
                Sequence(<< Canvas(<<Image(IdSecond)>>) >>) >>),
    \* upper-case extension and logo, two qualifying images
    Manifest(<< Sequence(<< Canvas(<<Image(IdLogoUpper), Image(IdUpperPng)>>),
                            Canvas(<<Image(IdQ)>>) >>) >>),
    \* missing keys before the image
    Manifest(<< Sequence(<< CanvasNoImages,
                            Canvas(<<ImageNoResource, ImageNoId, Image(IdQ)>>) >>) >>),
    Manifest(<< SequenceNoCanvases, Sequence(<< Canvas(<<Image(IdQ)>>) >>) >>),
    ManifestNotObject
}

-----------------------------------------------------------------------------
(* handle_search_nli *)

\* The records a backend may return are the entries of Catalogue; a Record is
\* named by its position there.
NumRecords == Len(Catalogue)

\* A backend item list: n consecutive records of the catalogue from record s.
Run(s, n) == [i \in 1..n |-> ((s + i - 2) % NumRecords) + 1]
BackendLists == { Run(s, n) : s \in 1..NumRecords, n \in 0..MaxBackend }

\* What `await client.get`, raise_for_status and response.json() produce:
\* a transport failure, a body that is not JSON, or the decoded data, which is
\* a bare list, an object with optional total_results and items, or another
\* JSON value.
BackendReplies ==
    { [kind |-> k, total |-> None, items |-> None] :
          k \in {"network_error", "http_status", "not_json", "scalar"} }
    \cup { [kind |-> "list", total |-> None, items |-> Some(l)] : l \in BackendLists }
    \cup { [kind |-> "object", total |-> t, items |-> i] :
              t \in {None} \cup { Some(n) : n \in 0..MaxTotal },
              i \in {None} \cup { Some(l) : l \in BackendLists } }

\* The arguments of a search: q is required by the schema, limit is
\* arguments.get("limit") and offset is arguments.get("offset", 0).
SearchArgs ==
    { [hasQ |-> q, limit |-> l, offset |-> o] :
          q \in BOOLEAN,
          l \in {None} \cup { Some(n) : n \in 1..MaxLimit },
          o \in 0..MaxOffset }

\* dict.get(key, default) on an optional field.
GetOr(field, default) == IF field = None THEN default ELSE field[1]

\* json.dumps of a value and the text of an error message, as texts that
\* json.loads can tell apart.
JsonDumps(v) == [isJson |-> TRUE, value |-> Some(v), prefix |-> "", error |-> ""]
ErrorText(prefix, e) == [isJson |-> FALSE, value |-> None, prefix |-> prefix, error |-> e]
TextContent(text) == [type |-> "text", text |-> text]

SearchEnvelopeMutant(reply, offset, limit) ==
    IF reply.kind = "list"
    THEN [total_results |-> Len(PySlice(reply.items[1], offset, limit)),
          items |-> PySlice(reply.items[1], offset, limit)]
    ELSE [total_results |-> GetOr(reply.total, 0),
          items |-> PySlice(GetOr(reply.items, <<>>), offset, limit)]
\* result = {"total_results": total, "items": items[offset:offset+limit]},
\* for a list reply and for an object reply.
SearchEnvelope(reply, offset, limit) ==
    IF reply.kind = "list"
    THEN [total_results |-> Len(reply.items[1]),
          items |-> PySlice(reply.items[1], offset, offset + limit)]
    ELSE [total_results |-> GetOr(reply.total, 0),
          items |-> PySlice(GetOr(reply.items, <<>>), offset, offset + limit)]

\* The body of the try block: the exception it raises, or the envelope.
SearchTry(args, reply) ==
    CASE reply.kind = "network_error" -> [exc |-> Some("ConnectError"), value |-> None]
      [] reply.kind = "http_status" -> [exc |-> Some("HTTPStatusError"), value |-> None]
      [] reply.kind = "not_json" -> [exc |-> Some("JSONDecodeError"), value |-> None]
      [] reply.kind = "scalar" -> [exc |-> Some("AttributeError"), value |-> None]
      [] OTHER ->
            IF args.limit = None
            THEN [exc |-> Some("TypeError"), value |-> None]
            ELSE [exc |-> None,
                  value |-> Some(SearchEnvelope(reply, args.offset, args.limit[1]))]

SearchCatchesMutant(e) == e \in {"ConnectError", "HTTPStatusError"}
\* except Exception as e
SearchCatches(e) == TRUE

\* handle_search_nli from the first await on: the payloads returned, or the
\* exception raised to the caller.
HandleSearchNli(args, reply) ==
    LET t == SearchTry(args, reply)
    IN  IF t.exc = None
        THEN [raised |-> None,
              payloads |-> << TextContent(JsonDumps(t.value[1])) >>]
        ELSE IF SearchCatches(t.exc[1])
        THEN [raised |-> None,
              payloads |-> << TextContent(ErrorText("Error searching NLI: ", t.exc[1])) >>]
        ELSE [raised |-> t.exc, payloads |-> <<>>]

SearchCall ==
    /\ op = "none"
    /\ op' = "search"
    /\ \E a \in SearchArgs :
          /\ se_args' = a
          /\ se_pc' = IF a.hasQ THEN "fetching" ELSE "raised"   \* q = arguments["q"]
    /\ UNCHANGED <<se_reply, se_result, sbVars, grVars, auxVars>>

\* The backend call completes, one way or another, and the handler returns.
SearchReturn ==
    /\ se_pc = "fetching"
    /\ \E r \in BackendReplies :
          LET out == HandleSearchNli(se_args, r)
          IN  /\ se_reply' = r
              /\ se_result' = out.payloads
              /\ se_pc' = IF out.raised = None THEN "returned" ELSE "raised"
    /\ UNCHANGED <<op, se_args, sbVars, grVars, auxVars>>

-----------------------------------------------------------------------------
(* handle_get_manifest and handle_generate_response *)

\* What the manifest endpoint may answer: a failure, or a manifest document.
ManifestReplies ==
    { [kind |-> k, data |-> None] : k \in {"network_error", "http_status", "not_json"} }
    \cup { [kind |-> "json", data |-> Some(m)] : m \in Manifests }

\* handle_get_manifest: the payloads it returns; every failure is caught.
HandleGetManifest(reply) ==
    CASE reply.kind = "network_error" ->
            << TextContent(ErrorText("Error retrieving manifest: ", "ConnectError")) >>
      [] reply.kind = "http_status" ->
            << TextContent(ErrorText("Error retrieving manifest: ", "HTTPStatusError")) >>
      [] reply.kind = "not_json" ->
            << TextContent(ErrorText("Error retrieving manifest: ", "JSONDecodeError")) >>
      [] OTHER -> << TextContent(JsonDumps(reply.data[1])) >>

\* img.get("resource", {}).get("@id", "")
ImageId(img) == IF img.resource = None THEN <<>> ELSE GetOr(img.resource[1].id, <<>>)

\* The identifiers of one canvas, in order; canvas.get("images", []).
CanvasIds(canvas) ==
    LET images == GetOr(canvas.images, <<>>)
    IN  [i \in 1..Len(images) |-> ImageId(images[i])]

\* The identifiers the generator visits: for canvas in canvases, for img in images.
RECURSIVE CanvasesIds(_)
CanvasesIds(canvases) ==
    IF canvases = <<>> THEN <<>>
    ELSE CanvasIds(Head(canvases)) \o CanvasesIds(Tail(canvases))

QualifiesMutant(id) == EndsWith(Lower(id), JpgSuffix) \/ EndsWith(Lower(id), PngSuffix)
\* id.lower().endswith((".jpg", ".png")) and "logo" not in id.lower()
Qualifies(id) ==
    /\ EndsWith(Lower(id), JpgSuffix) \/ EndsWith(Lower(id), PngSuffix)
    /\ ~Contains(Lower(id), LogoWord)

\* next((id for ... if qualifies), None)
FirstQualifying(ids) ==
    LET hits == { j \in 1..Len(ids) : Qualifies(ids[j]) }
    IN  IF hits = {} THEN None
        ELSE Some(ids[CHOOSE j \in hits : \A k \in hits : j <= k])

ScannedCanvasesMutant(sequences) ==
    LET RECURSIVE All(_)
        All(ss) == IF ss = <<>> THEN <<>>
                   ELSE GetOr(Head(ss).canvases, <<>>) \o All(Tail(ss))
    IN  All(sequences)
\* canvases = sequences[0].get("canvases", [])
ScannedCanvases(sequences) == GetOr(sequences[1].canvases, <<>>)

\* The body of the per-record try block over one gathered result: the image
\* URL to emit, or None (the result is no JSON, the manifest is no object,
\* it has no sequences, or no identifier qualifies).
ManifestImage(payloads) ==
    IF ~payloads[1].text.isJson THEN None
    ELSE LET manifest_data == payloads[1].text.value[1]
         IN  IF ~manifest_data.isObject THEN None
             ELSE LET sequences == GetOr(manifest_data.sequences, <<>>)
                  IN  IF sequences = <<>> THEN None
                      ELSE LET image_url == FirstQualifying(CanvasesIds(ScannedCanvases(sequences)))
                           IN  IF image_url # None /\ image_url[1] # <<>>
                               THEN image_url ELSE None

ImageRecord(record_id, title, url) ==
    [recordId |-> record_id, title |-> title, thumbnailUrl |-> url]

\* Python truthiness of an optional string.
Truthy(v) == v # None /\ v[1] # <<>>

\* One iteration of `for item in current_items`.
ClassifyItem(item, acc) ==
    LET rec == Catalogue[item]
        record_id == GetSimpleField(rec.recordid)
        title == GetSimpleField(rec.title)
        thumbnail == GetSimpleField(rec.thumbnail)
    IN  IF record_id.exc # None THEN [acc EXCEPT !.exc = record_id.exc]
        ELSE IF title.exc # None THEN [acc EXCEPT !.exc = title.exc]
        ELSE IF thumbnail.exc # None THEN [acc EXCEPT !.exc = thumbnail.exc]
        ELSE IF /\ ~Truthy(thumbnail.value) \/ ~HasScheme(thumbnail.value[1])
                /\ record_id.value # None
        THEN [acc EXCEPT !.queue = Append(@, [recordId |-> record_id.value,
                                               title |-> title.value])]
        ELSE IF Truthy(thumbnail.value) /\ HasScheme(thumbnail.value[1])
        THEN [acc EXCEPT !.images = Append(@, ImageRecord(record_id.value, title.value,
                                                            thumbnail.value[1]))]
        ELSE acc

\* The classification loop: items_images, items_for_manifest, or the
\* exception that ends it.
RECURSIVE ClassifyFrom(_, _)
ClassifyFrom(items, acc) ==
    IF items = <<>> \/ acc.exc # None THEN acc
    ELSE ClassifyFrom(Tail(items), ClassifyItem(Head(items), acc))
Classify(items) == ClassifyFrom(items, [exc |-> None, images |-> <<>>, queue |-> <<>>])

\* The loop over zip(items_for_manifest, manifest_results): the fallback
\* ImageRecords, in queue order.
RECURSIVE FallbackImages(_, _)
FallbackImages(queue, results) ==
    IF queue = <<>> \/ results = <<>> THEN <<>>
    ELSE LET url == ManifestImage(Head(results))
             rest == FallbackImages(Tail(queue), Tail(results))
         IN  IF url = None THEN rest
             ELSE <<ImageRecord(Head(queue).recordId, Head(queue).title, url[1])>> \o rest

\* search_params["limit"] = 3
PageSize == 3

\* dict.get(key, default) of the parsed envelope.
DictGet(d, key, default) == IF key \in DOMAIN d THEN d[key] ELSE default

\* current_offset = search_data.get("offset", 0)
CurrentOffset(search_data) == DictGet(search_data, "offset", 0)

\* current_limit = search_data.get("limit", 3)
CurrentLimit(search_data) == DictGet(search_data, "limit", PageSize)

\* results_start = current_offset + 1
ResultsStart(search_data) == CurrentOffset(search_data) + 1

\* results_end = min(total_results - current_offset, current_offset + 3)
ResultsEnd(search_data) ==
    Min(DictGet(search_data, "total_results", 0) - CurrentOffset(search_data),
        CurrentOffset(search_data) + PageSize)

\* has_more_results = results_end < total_results
HasMore(search_data) == ResultsEnd(search_data) < DictGet(search_data, "total_results", 0)

\* next_offset = current_offset + current_limit if has_more_results else None
NextPageOffset(search_data) ==
    IF HasMore(search_data)
    THEN Some(CurrentOffset(search_data) + CurrentLimit(search_data))
    ELSE None

\* The payloads built from line 594 on: the summary, reduced to the values it
\* prints, and the continuation prompt if there are more results.
Compose(search_data, items_images) ==
    LET total_results == DictGet(search_data, "total_results", 0)
        summary ==
            [kind |-> "summary",
             total_results |-> total_results,
             results_start |-> ResultsStart(search_data),
             results_end |-> ResultsEnd(search_data),
             batch |-> Len(DictGet(search_data, "items", <<>>)),
             has_more |-> HasMore(search_data),
             next_offset |-> NextPageOffset(search_data),
             items_images |-> items_images]
        continuation ==
            [kind |-> "continuation",
             more |-> total_results - ResultsEnd(search_data),
             next_offset |-> NextPageOffset(search_data)]
    IN  IF HasMore(search_data)
        THEN << TextContent(summary), TextContent(continuation) >>
        ELSE << TextContent(summary) >>

\* The arguments of generate_response: an empty mapping, or one with or
\* without user_query, q and offset (limit is overwritten).
ResponseArgs ==
    { [present |-> FALSE, user_query |-> FALSE, hasQ |-> FALSE, offset |-> None],
      [present |-> TRUE, user_query |-> FALSE, hasQ |-> TRUE, offset |-> None],
      [present |-> TRUE, user_query |-> TRUE, hasQ |-> FALSE, offset |-> None] }
    \cup { [present |-> TRUE, user_query |-> TRUE, hasQ |-> TRUE, offset |-> o] :
              o \in {None} \cup { Some(n) : n \in 0..MaxOffset } }

\* search_params: the arguments without user_query, limit and None values,
\* with limit = 3.
SearchParams(args) ==
    [hasQ |-> args.hasQ, limit |-> Some(PageSize), offset |-> GetOr(args.offset, 0)]

ErrorPayload(prefix, e) == << TextContent(ErrorText(prefix, e)) >>

\* json.loads(search_result[0].text) of a text that is not JSON: the exception
\* the first except clause names. Every "Error searching NLI: ..." text fails
\* at its first character, so the message does not depend on the text.
JsonLoadsError(text) == "JSONDecodeError"

\* The handler up to its first await: argument validation, and q = arguments["q"]
\* of handle_search_nli, whose KeyError the outer except turns into a message.
ResponseCall ==
    /\ op = "none"
    /\ op' = "generate_response"
    /\ \E a \in ResponseArgs :
          /\ gr_args' = a
          /\ IF ~a.present
             THEN gr_pc' = "done" /\ gr_out' = ErrorPayload("No arguments provided", "")
             ELSE IF ~a.user_query
             THEN gr_pc' = "done" /\ gr_out' = ErrorPayload("Missing user_query parameter", "")
             ELSE IF ~a.hasQ
             THEN gr_pc' = "done" /\ gr_out' = ErrorPayload("Error processing query: ", "KeyError")
             ELSE gr_pc' = "searching" /\ gr_out' = <<>>
    /\ UNCHANGED <<gr_data, gr_images, gr_queue, gr_fetch, gr_reply, gr_served, sbVars, seVars, auxVars>>

\* handle_search_nli returns; its text is parsed, the items are classified and
\* the manifest tasks are created. Without tasks the response is composed in
\* the same step.
ResponseSearched ==
    /\ gr_pc = "searching"
    /\ \E r \in BackendReplies :
          LET found == HandleSearchNli(SearchParams(gr_args), r)
              text == found.payloads[1].text
          IN  /\ gr_reply' = IF r.kind \in {"list", "object"} THEN "decoded" ELSE r.kind
              /\ IF ~text.isJson
                 THEN /\ gr_pc' = "done"
                      /\ gr_out' = ErrorPayload("Failed to parse search results: ",
                                                JsonLoadsError(text))
                      /\ UNCHANGED <<gr_data, gr_images, gr_queue, gr_fetch, gr_served>>
                 ELSE LET search_data == text.value[1]
                          sorted == Classify(DictGet(search_data, "items", <<>>))
                      IN  /\ gr_data' = Some(search_data)
                          /\ IF sorted.exc # None
                             THEN /\ gr_pc' = "done"
                                  /\ gr_out' = ErrorPayload("Error processing query: ", sorted.exc[1])
                                  /\ UNCHANGED <<gr_images, gr_queue, gr_fetch, gr_served>>
                             ELSE /\ gr_images' = sorted.images
                                  /\ gr_queue' = sorted.queue
                                  /\ gr_fetch' = [i \in 1..Len(sorted.queue) |-> <<>>]
                                  /\ gr_served' \in [1..Len(sorted.queue) -> ManifestReplies]
                                  /\ IF sorted.queue = <<>>
                                     THEN /\ gr_pc' = "done"
                                          /\ gr_out' = Compose(search_data, sorted.images)
                                     ELSE /\ gr_pc' = "gathering"
                                          /\ gr_out' = <<>>
    /\ UNCHANGED <<op, gr_args, sbVars, seVars, auxVars>>

GatherStoreMutant(results, i, payloads) ==
    LET first == CHOOSE j \in 1..Len(results) :
                    results[j] = <<>> /\ \A k \in 1..(j - 1) : results[k] # <<>>
    IN  [results EXCEPT ![first] = payloads]
\* asyncio.gather(*manifest_tasks): the result of task i is element i of the
\* list it returns, whenever the task completes.
GatherStore(results, i, payloads) == [results EXCEPT ![i] = payloads]

\* One of the gathered handle_get_manifest tasks completes with the answer of
\* the manifest endpoint for its record; the tasks complete in any order and
\* each result is kept at the position of its task.
ManifestFetched ==
    /\ gr_pc = "gathering"
    /\ \E i \in 1..Len(gr_fetch) :
          /\ gr_fetch[i] = <<>>
          /\ gr_fetch' = GatherStore(gr_fetch, i, HandleGetManifest(gr_served[i]))
    /\ UNCHANGED <<op, gr_pc, gr_args, gr_data, gr_images, gr_queue, gr_out, gr_reply,
                   gr_served, sbVars, seVars, auxVars>>

\* asyncio.gather returns when every task is done: the zip loop appends the
\* fallback images and the response is composed.
ResponseGathered ==
    /\ gr_pc = "gathering"
    /\ \A i \in 1..Len(gr_fetch) : gr_fetch[i] # <<>>
    /\ gr_images' = gr_images \o FallbackImages(gr_queue, gr_fetch)
    /\ gr_out' = Compose(gr_data[1], gr_images')
    /\ gr_pc' = "done"
    /\ UNCHANGED <<op, gr_args, gr_data, gr_queue, gr_fetch, gr_reply, gr_served, sbVars, seVars, auxVars>>

-----------------------------------------------------------------------------
(* get_simple_field applied to one raw value *)

TextA == <<" ", "a", " ">>
TextB == <<"b">>
TextValueObject == <<"{", "'", "@", "v", "a", "l", "u", "e", "'", ":", " ", "'", " ", "x", " ", "'", "}">>
TextMalformed == <<"{", "@", "v", "a", "l", "u", "e", " ", "y">>

\* The raw values item.get(key_name) may give.
RawValues ==
    {Absent, StrVal(<<>>), StrVal(TextA), StrVal(TextValueObject), StrVal(TextMalformed),
     ListVal(<<>>), ListVal(<<TextA>>), ListVal(<<TextA, TextB>>), ListVal(<<TextB, TextA>>),
     ListVal(<<TextValueObject, TextB>>), ListVal(<<TextB, TextValueObject>>),
     ListVal(<<TextMalformed>>)}

\* get_simple_field(item, key_name) for one raw value.
FieldCall ==
    /\ op = "none"
    /\ op' = "get_simple_field"
    /\ gf_in' \in RawValues
    /\ gf_out' = GetSimpleField(gf_in')
    /\ UNCHANGED <<sbVars, seVars, grVars, ctVars, pgVars>>

-----------------------------------------------------------------------------
(* handle_call_tool *)

\* The names a client may send: the six tools of the dispatch chain, and
\* "search", which the chain has no branch for.
ToolNames ==
    {"process_natural_query", "generate_response", "stream_batches",
     "get_image", "get_manifest", "get_stream", "search"}

\* A call: the tool name and whether the flat argument mapping holds the
\* tool's required arguments.
ToolCalls == [name : ToolNames, required : BOOLEAN]

\* A text that is not a JSON document.
Message(text) == ErrorText(text, "")

Returned(payloads) == [raised |-> None, payloads |-> payloads]
Raised(exc) == [raised |-> Some(exc), payloads |-> <<>>]

\* What an endpoint failure makes httpx raise.
EndpointError(reply) ==
    CASE reply.kind = "network_error" -> "ConnectError"
      [] reply.kind = "http_status" -> "HTTPStatusError"
      [] OTHER -> "JSONDecodeError"

\* handle_process_natural_query: arguments.get("user_query"), then one text.
HandleProcessNaturalQuery(required) ==
    Returned(<< TextContent(Message("QUERY_PROCESSING_INSTRUCTIONS")) >>)

\* handle_generate_response as the dispatcher sees it: the validation text
\* without user_query, else the composed response or the failure text.
HandleGenerateResponse(required, reply) ==
    IF ~required THEN Returned(ErrorPayload("Missing user_query parameter", ""))
    ELSE IF reply.kind = "json"
    THEN Returned(<< TextContent(Message("summary")) >>)
    ELSE Returned(ErrorPayload("Failed to parse search results: ", "JSONDecodeError"))

\* handle_get_image: arguments["identifier"] is read before the try; the body
\* of the answer is not decoded.
HandleGetImage(required, reply) ==
    IF ~required THEN Raised("KeyError")
    ELSE IF reply.kind \in {"network_error", "http_status"}
    THEN Returned(ErrorPayload("Error retrieving image: ", EndpointError(reply)))
    ELSE Returned(<< TextContent(Message("Image retrieved successfully from: ")) >>)

\* handle_get_manifest behind the dispatcher: arguments["recordId"] is read
\* before the try.
CallGetManifest(required, reply) ==
    IF ~required THEN Raised("KeyError") ELSE Returned(HandleGetManifest(reply))

\* handle_get_stream: arguments["itemId"] is read before the try; a document
\* without items gives "Item not found".
HandleGetStream(required, reply) ==
    IF ~required THEN Raised("KeyError")
    ELSE IF reply.kind = "json"
    THEN Returned(<< TextContent(Message("Item not found")) >>)
    ELSE Returned(ErrorPayload("Error retrieving streams: ", EndpointError(reply)))

\* handle_call_tool: the if/elif chain. stream_batches takes five positional
\* parameters and is called with the mapping as its only argument, so the call
\* itself raises TypeError; a name without a branch raises ValueError.
HandleCallTool(call, reply) ==
    CASE call.name = "process_natural_query" -> HandleProcessNaturalQuery(call.required)
      [] call.name = "generate_response" -> HandleGenerateResponse(call.required, reply)
      [] call.name = "stream_batches" -> Raised("TypeError")
      [] call.name = "get_image" -> HandleGetImage(call.required, reply)
      [] call.name = "get_manifest" -> CallGetManifest(call.required, reply)
      [] call.name = "get_stream" -> HandleGetStream(call.required, reply)
      [] OTHER -> Raised("ValueError")

\* A client calls a tool.
ToolCall ==
    /\ op = "none"
    /\ op' = "call_tool"
    /\ ct_pc' = "dispatched"
    /\ ct_call' \in ToolCalls
    /\ UNCHANGED <<ct_out, sbVars, seVars, grVars, gfVars, pgVars>>

\* The branch taken returns its payloads or raises to the caller of
\* handle_call_tool.
ToolReturn ==
    /\ ct_pc = "dispatched"
    /\ \E reply \in ManifestReplies :
          ct_out' = HandleCallTool(ct_call, reply)
    /\ ct_pc' = IF ct_out'.raised = None THEN "returned" ELSE "raised"
    /\ UNCHANGED <<op, ct_call, sbVars, seVars, grVars, gfVars, pgVars>>

-----------------------------------------------------------------------------
(* A consumer paging through generate_response *)

\* The calls one consumer makes in a behaviour of the model.
MaxCalls == 4

\* A backend that honours rows and start: the page of its `total` records
\* that starts at `offset`, with records whose classification does not raise.
BackendPage(total, offset) ==
    [kind |-> "object", total |-> Some(total),
     items |-> Some(Run(1, Min(PageSize, Max(0, total - offset))))]

\* The payloads of generate_response at `offset`; the images do not bear on
\* the continuation.
PagingResponse(total, offset) ==
    Compose(SearchEnvelope(BackendPage(total, offset), offset, PageSize), <<>>)

\* The consumer's next state after the call at `offset`.
PagingAfter(total, offset) ==
    IF Len(PagingResponse(total, offset)) = 2 THEN "continuing" ELSE "finished"

\* The first call, at offset 0.
PagingStart ==
    /\ op = "none"
    /\ op' = "paging"
    /\ pg_total' \in 0..MaxTotal
    /\ pg_visited' = <<0>>
    /\ pg_pc' = PagingAfter(pg_total', 0)
    /\ UNCHANGED <<sbVars, seVars, grVars, ctVars, gfVars>>

\* The consumer calls again with the offset the continuation payload names.
PagingStep ==
    /\ pg_pc = "continuing"
    /\ Len(pg_visited) < MaxCalls
    /\ LET last == PagingResponse(pg_total, pg_visited[Len(pg_visited)])
           offset == last[2].text.next_offset[1]
       IN  /\ pg_visited' = Append(pg_visited, offset)
           /\ pg_pc' = PagingAfter(pg_total, offset)
    /\ UNCHANGED <<op, pg_total, sbVars, seVars, grVars, ctVars, gfVars>>

-----------------------------------------------------------------------------

Init ==
    /\ op = "none"
    /\ sb_pc = "idle" /\ sb_len = 0 /\ sb_first = 0 /\ sb_batch = 0
    /\ sb_offset = 0 /\ sb_depth = 0 /\ sb_reports = <<>>
    /\ se_pc = "idle" /\ se_args = [hasQ |-> FALSE, limit |-> None, offset |-> 0]
    /\ se_reply = [kind |-> "none", total |-> None, items |-> None] /\ se_result = <<>>
    /\ gr_pc = "idle" /\ gr_data = None
    /\ gr_args = [present |-> FALSE, user_query |-> FALSE, hasQ |-> FALSE, offset |-> None]
    /\ gr_images = <<>> /\ gr_queue = <<>> /\ gr_fetch = <<>> /\ gr_out = <<>>
    /\ gr_reply = "none" /\ gr_served = <<>>
    /\ ct_pc = "idle" /\ ct_call = [name |-> "none", required |-> FALSE]
    /\ ct_out = [raised |-> None, payloads |-> <<>>]
    /\ gf_in = Absent /\ gf_out = [exc |-> None, value |-> None]
    /\ pg_pc = "idle" /\ pg_total = 0 /\ pg_visited = <<>>

Next ==
    \/ StreamCall
    \/ StreamComplete
    \/ StreamBatch
    \/ StreamOverflow
    \/ SearchCall
    \/ SearchReturn
    \/ ResponseCall
    \/ ResponseSearched
    \/ ManifestFetched
    \/ ResponseGathered
    \/ ToolCall
    \/ ToolReturn
    \/ FieldCall
    \/ PagingStart
    \/ PagingStep

Spec == Init /\ [][Next]_vars

-----------------------------------------------------------------------------
(* Properties of stream_batches. *)

RECURSIVE Flatten(_)
Flatten(ss) == IF ss = <<>> THEN <<>> ELSE Head(ss) \o Flatten(Tail(ss))

IsBatch(r) == r.kind = "batch"
BatchReports == SelectSeq(sb_reports, IsBatch)
Windows == [i \in 1..Len(BatchReports) |-> BatchReports[i].window]

\* The invocation returned: a completion report closes the list of reports.
StreamReturned == op = "stream_batches" /\ sb_pc = "done"

\* C1: for a starting offset o >= 0 and a batch_size >= 1, the windows of the
\* non-terminal reports returned by one invocation hold items[o], ...,
\* items[len-1] exactly once and in list order, each window is the run of
\* items its 1-indexed inclusive labels batchStart..batchEnd name, and each
\* window starts right after the one before it ends.
C1_WindowsPartitionItems ==
    (StreamReturned /\ sb_first >= 0 /\ sb_batch >= 1) =>
        LET rs == BatchReports
            items == StreamItems(sb_len)
        IN  /\ Flatten(Windows) = SubSeq(items, sb_first + 1, sb_len)
            /\ \A i \in 1..Len(rs) :
                  /\ rs[i].window # <<>>
                  /\ rs[i].window = SubSeq(items, rs[i].batchStart, rs[i].batchEnd)
                  /\ i = 1 => rs[i].batchStart = sb_first + 1
                  /\ i > 1 => rs[i].batchStart = rs[i - 1].batchEnd + 1
                  /\ i = Len(rs) => rs[i].batchEnd = sb_len
            /\ \A i \in 1..Len(sb_reports) :
                  (sb_reports[i].kind = "final") <=> (i = Len(sb_reports))

\* 25 items in batches of 10 from offset 0: windows 1-10, 11-20, 21-25, then
\* the completion report.
C1_Witness ==
    /\ StreamReturned
    /\ sb_len = 25 /\ sb_batch = 10 /\ sb_first = 0
    /\ Len(sb_reports) = 4
    /\ [i \in 1..3 |-> <<sb_reports[i].batchStart, sb_reports[i].batchEnd>>]
          = << <<1, 10>>, <<11, 20>>, <<21, 25>> >>
    /\ sb_reports[4].kind = "final"

\* C2: every invocation ends in the terminal state, with exactly one
\* completion report, emitted last.
C2_EndsWithCompletionReport ==
    (op = "stream_batches" /\ sb_pc # "active") =>
        /\ sb_pc = "done"
        /\ sb_offset >= sb_len
        /\ sb_reports # <<>>
        /\ \A i \in 1..Len(sb_reports) :
              (sb_reports[i].kind = "final") <=> (i = Len(sb_reports))

\* C3: each non-terminal report names offset + batch_size as continuation,
\* the next report is produced at that offset, and the report right before
\* the completion report states remaining = 0.
C3_ContinuationChain ==
    (op = "stream_batches") =>
        \A i \in 1..Len(sb_reports) :
            IsBatch(sb_reports[i]) =>
                /\ sb_reports[i].nextOffset = Some(sb_reports[i].offset + sb_batch)
                /\ i < Len(sb_reports) =>
                      /\ Some(sb_reports[i + 1].offset) = sb_reports[i].nextOffset
                      /\ sb_reports[i + 1].kind = "final" => sb_reports[i].remaining = 0
                /\ (i = Len(sb_reports) /\ sb_pc = "active") =>
                      Some(sb_offset) = sb_reports[i].nextOffset

\* A returned chain of at least three windows, the first with items left and
\* the last before the completion report with none.
C3_Witness ==
    /\ StreamReturned
    /\ Len(sb_reports) >= 4
    /\ sb_reports[1].remaining > 0
    /\ sb_reports[Len(sb_reports) - 1].remaining = 0
    /\ sb_reports[Len(sb_reports) - 1].window # <<>>

\* C4 as stated: a window report carries no continuation offset if and only
\* if its remaining count is 0.
C4_NullIffNoneRemaining ==
    \A i \in 1..Len(sb_reports) :
        IsBatch(sb_reports[i]) =>
            ((sb_reports[i].nextOffset = None) <=> (sb_reports[i].remaining = 0))

\* C4 amended: every window report names the continuation offset
\* offset + batch_size, also when nothing remains; its remaining count is 0
\* if and only if that offset is at or past the end of the item list, where
\* the next report is the completion report.
C4_OffsetAlwaysNamed ==
    \A i \in 1..Len(sb_reports) :
        IsBatch(sb_reports[i]) =>
            /\ sb_reports[i].nextOffset # None
            /\ sb_reports[i].nextOffset = Some(sb_reports[i].offset + sb_batch)
            /\ (sb_reports[i].remaining = 0) <=> (sb_reports[i].nextOffset[1] >= sb_len)

\* A window report with nothing remaining that still names a continuation.
C4_Witness ==
    /\ op = "stream_batches"
    /\ \E i \in 1..Len(sb_reports) :
          /\ IsBatch(sb_reports[i])
          /\ sb_reports[i].remaining = 0
          /\ sb_reports[i].nextOffset # None
    /\ \E i \in 1..Len(sb_reports) :
          IsBatch(sb_reports[i]) /\ sb_reports[i].remaining > 0

-----------------------------------------------------------------------------
(* Properties of handle_search_nli. *)

\* The search returned payloads after a backend reply that decoded to a list
\* or an object.
SearchDecoded ==
    /\ op = "search"
    /\ se_pc = "returned"
    /\ se_reply.kind \in {"list", "object"}

BackendItems == GetOr(se_reply.items, <<>>)

\* C6: with an integer limit, a list reply L gives total_results = len(L)
\* and an object reply gives its total_results (0 if missing); in both the
\* items are those of the reply at indices offset .. offset+limit-1 that
\* exist, in backend order.
C6_EnvelopeNormalized ==
    (SearchDecoded /\ se_args.limit # None) =>
        /\ Len(se_result) = 1
        /\ se_result[1].text.isJson
        /\ LET env == se_result[1].text.value[1]
               L == BackendItems
               o == se_args.offset
               k == se_args.limit[1]
           IN  /\ DOMAIN env = {"total_results", "items"}
               /\ env.total_results =
                     IF se_reply.kind = "list" THEN Len(L)
                     ELSE IF se_reply.total = None THEN 0 ELSE se_reply.total[1]
               /\ Len(env.items) = Max(0, Min(Len(L), o + k) - Min(o, Len(L)))
               /\ \A i \in 1..Len(env.items) : env.items[i] = L[o + i]

\* A bare list of 5 items with offset=2 and limit=2: the items at indices 2
\* and 3, and total_results = 5.
C6_Witness ==
    /\ SearchDecoded
    /\ se_reply.kind = "list" /\ Len(BackendItems) = 5
    /\ se_args.offset = 2 /\ se_args.limit = Some(2)
    /\ se_result[1].text.isJson
    /\ se_result[1].text.value[1] =
          [total_results |-> 5, items |-> <<BackendItems[3], BackendItems[4]>>]
    /\ BackendItems[3] # BackendItems[4]

\* C7: a search without a limit whose backend call succeeded returns an
\* envelope holding every backend item from offset onward.
C7_NoLimitNoSlicing ==
    (SearchDecoded /\ se_args.limit = None) =>
        /\ Len(se_result) = 1
        /\ se_result[1].text.isJson
        /\ se_result[1].text.value[1].items =
              SubSeq(BackendItems, se_args.offset + 1, Len(BackendItems))

\* C8: after a transport failure or a body that is not JSON the handler has
\* not raised: it returns exactly one text payload, an error message and no
\* envelope.
C8_FailureIsOneErrorText ==
    (op = "search" /\ se_reply.kind \in {"network_error", "http_status", "not_json"}) =>
        /\ se_pc = "returned"
        /\ Len(se_result) = 1
        /\ se_result[1].type = "text"
        /\ ~se_result[1].text.isJson
        /\ se_result[1].text.value = None
        /\ se_result[1].text.prefix = "Error searching NLI: "

\* The body was not JSON and the caller got the error message.
C8_Witness ==
    /\ op = "search"
    /\ se_pc = "returned"
    /\ se_reply.kind = "not_json"
    /\ se_result = << TextContent(ErrorText("Error searching NLI: ", "JSONDecodeError")) >>

-----------------------------------------------------------------------------
(* Properties of handle_generate_response. *)

\* The handler returned the composed response (not an error message).
ResponseComposed ==
    /\ op = "generate_response"
    /\ gr_pc = "done"
    /\ gr_out # <<>>
    /\ "kind" \in DOMAIN gr_out[1].text

\* The offset of the request: arguments.get("offset", 0).
RequestOffset == GetOr(gr_args.offset, 0)

\* C5: with page size 3 and request offset o, hasMore is true exactly when
\* results exist beyond the current page (o + 3 < total_results); the
\* continuation then names nextOffset = o + 3, and without more results no
\* continuation payload is returned.
C5_HasMoreBeyondPage ==
    ResponseComposed =>
        LET summary == gr_out[1].text
        IN  /\ summary.has_more <=> (RequestOffset + PageSize < summary.total_results)
            /\ summary.has_more =>
                  /\ summary.next_offset = Some(RequestOffset + PageSize)
                  /\ Len(gr_out) = 2
                  /\ gr_out[2].text.next_offset = Some(RequestOffset + PageSize)
            /\ ~summary.has_more => Len(gr_out) = 1

\* C9: every ImageRecord of items_images has a thumbnailUrl that is not
\* empty and starts with http:// or https://.
C9_ThumbnailUrlHasScheme ==
    \A k \in 1..Len(gr_images) :
        /\ gr_images[k].thumbnailUrl # <<>>
        /\ HasScheme(gr_images[k].thumbnailUrl)

\* The manifest document of the gathered result at position i: the decoded
\* object, or None for a failed fetch.
FetchedManifest(i) ==
    IF gr_fetch[i] # <<>> /\ gr_fetch[i][1].text.isJson
    THEN gr_fetch[i][1].text.value
    ELSE None

\* The identifiers of the first sequence of a manifest, canvas by canvas and
\* image by image.
FirstSequenceIds(m) ==
    IF ~m.isObject \/ m.sequences = None \/ m.sequences[1] = <<>> THEN <<>>
    ELSE LET canvases == GetOr(m.sequences[1][1].canvases, <<>>)
         IN  CanvasesIds(canvases)

IsJpgOrPngNoLogo(id) ==
    /\ \E ext \in {JpgSuffix, PngSuffix} :
          /\ Len(id) >= Len(ext)
          /\ \A c \in 1..Len(ext) : LowerChar(id[Len(id) - Len(ext) + c]) = ext[c]
    /\ ~\E at \in 0..(Len(id) - Len(LogoWord)) :
          \A c \in 1..Len(LogoWord) : LowerChar(id[at + c]) = LogoWord[c]

\* C10: for every queued record whose manifest was fetched, items_images
\* holds an ImageRecord of that record exactly if an identifier of the first
\* sequence qualifies, and its thumbnailUrl is the first qualifying
\* identifier in canvas and image order; other sequences do not count.
C10_FirstQualifyingOfFirstSequence ==
    ResponseComposed =>
        \A i \in 1..Len(gr_queue) :
            FetchedManifest(i) # None =>
                LET ids == FirstSequenceIds(FetchedManifest(i)[1])
                    good == { j \in 1..Len(ids) : IsJpgOrPngNoLogo(ids[j]) }
                    mine == { k \in 1..Len(gr_images) :
                                gr_images[k].recordId = gr_queue[i].recordId }
                IN  IF good = {}
                    THEN mine = {}
                    ELSE /\ Cardinality(mine) = 1
                         /\ \A k \in mine :
                               /\ gr_images[k].title = gr_queue[i].title
                               /\ \E j \in good :
                                     /\ \A h \in good : j <= h
                                     /\ gr_images[k].thumbnailUrl = ids[j]

\* The manifest with logoA.png on its first canvas and real.jpg on its second
\* gives real.jpg, and a manifest whose only image is in its second sequence
\* gives no ImageRecord.
C10_Witness ==
    /\ ResponseComposed
    /\ \E i \in 1..Len(gr_queue) :
          /\ FetchedManifest(i) # None
          /\ FirstSequenceIds(FetchedManifest(i)[1]) = <<IdLogoA, IdReal>>
          /\ \E k \in 1..Len(gr_images) :
                /\ gr_images[k].recordId = gr_queue[i].recordId
                /\ gr_images[k].thumbnailUrl = IdReal
    /\ \E i \in 1..Len(gr_queue) :
          /\ FetchedManifest(i) # None
          /\ FirstSequenceIds(FetchedManifest(i)[1]) = <<IdGif>>
          /\ \A k \in 1..Len(gr_images) : gr_images[k].recordId # gr_queue[i].recordId

-----------------------------------------------------------------------------
(* Properties of the manifest fan-out. *)

\* C11: for every queued record, items_images holds an ImageRecord with the
\* record's own recordId and title exactly if the record's own manifest was
\* fetched and an identifier of its first sequence qualifies, and that
\* ImageRecord carries an identifier of the record's own manifest; this holds
\* whatever the order in which the fetches completed and whatever the other
\* fetches returned.
C11_FanOutIsolatedPerRecord ==
    ResponseComposed =>
        \A i \in 1..Len(gr_queue) :
            LET own == IF gr_served[i].kind # "json" THEN <<>>
                       ELSE FirstSequenceIds(gr_served[i].data[1])
                resolved == \E j \in 1..Len(own) : IsJpgOrPngNoLogo(own[j])
                mine == { k \in 1..Len(gr_images) :
                            /\ gr_images[k].recordId = gr_queue[i].recordId
                            /\ gr_images[k].title = gr_queue[i].title }
            IN  /\ (mine # {}) <=> resolved
                /\ \A k \in mine :
                      \E j \in 1..Len(own) : own[j] = gr_images[k].thumbnailUrl

\* Two queued records: the fetch of the first failed and the second has its
\* image; and two queued records resolved from different manifests.
C11_Witness ==
    /\ ResponseComposed
    /\ Len(gr_queue) = 2
    /\ gr_served[1].kind = "network_error"
    /\ gr_served[2].kind = "json"
    /\ \E k \in 1..Len(gr_images) :
          /\ gr_images[k].recordId = gr_queue[2].recordId
          /\ gr_images[k].thumbnailUrl = IdUpperPng

-----------------------------------------------------------------------------
(* Properties of the dispatcher *)

\* The operations of the exposed contract.
ExposedOperations ==
    {"generate_response", "stream_batches", "get_image", "get_manifest", "search"}

\* C12: every exposed operation invoked through handle_call_tool returns one
\* or more text payloads, also when a required argument is missing, and never
\* raises to the caller of handle_call_tool.
C12_OperationsReturnTextNeverRaise ==
    (ct_pc \in {"returned", "raised"} /\ ct_call.name \in ExposedOperations)
        => /\ ct_out.raised = None
           /\ Len(ct_out.payloads) >= 1
           /\ \A i \in 1..Len(ct_out.payloads) : ct_out.payloads[i].type = "text"

-----------------------------------------------------------------------------
(* Properties of get_simple_field *)

\* The raw values the contract calls absent or empty.
EmptyRawValues == {Absent, StrVal(<<>>), ListVal(<<>>)}

\* C13: get_simple_field never raises; it returns null exactly for a raw
\* value that is missing, the empty string or the empty list, and a string
\* for every other raw value.
C13_NeverRaisesNullIffEmpty ==
    op = "get_simple_field"
        => /\ gf_out.exc = None
           /\ gf_in \in EmptyRawValues <=> gf_out.value = None

\* C14: for a non-empty list get_simple_field returns the normalization of
\* the first element only: the trimmed first string, or the trimmed @value of
\* a first element that is a value-object encoding.
C14_FirstElementWins ==
    (op = "get_simple_field" /\ gf_in.t = "list" /\ gf_in.l # <<>>)
        => gf_out = GetSimpleField(StrVal(gf_in.l[1]))

-----------------------------------------------------------------------------
(* Properties of the client-side slice and of the batch cursor *)

\* The backend honoured rows=limit and start=offset: its object reply holds
\* the requested page of its total_results records and nothing else.
BackendHonoursPage ==
    /\ se_reply.kind = "object"
    /\ se_reply.total # None
    /\ se_reply.items # None
    /\ se_args.limit # None
    /\ Len(BackendItems) = Min(se_args.limit[1], Max(0, se_reply.total[1] - se_args.offset))

\* C15: when the backend reply already holds exactly the requested page,
\* handle_search_nli returns every item of that page for every offset >= 0:
\* the client-side slice neither truncates nor empties it.
C15_SliceKeepsBackendPage ==
    (SearchDecoded /\ BackendHonoursPage) =>
        /\ se_result[1].text.isJson
        /\ se_result[1].text.value[1].items = BackendItems

\* C16: one invocation of stream_batches at offset o emits the report of the
\* window starting at o only; reports of later windows are not part of what
\* the invocation returns.
C16_OneWindowPerInvocation ==
    StreamReturned =>
        /\ Len(BatchReports) <= 1
        /\ \A i \in 1..Len(BatchReports) : BatchReports[i].offset = sb_first

-----------------------------------------------------------------------------
(* Properties of the classification and of the display range *)

\* The normalized value of a raw field as the contract of get_simple_field
\* states it: null for an absent or empty value, else the string returned.
NormalizedField(value) ==
    IF value \in EmptyRawValues THEN None ELSE GetSimpleField(value).value

HasValidThumbnail(item) ==
    LET thumbnail == NormalizedField(Catalogue[item].thumbnail)
    IN  thumbnail # None /\ HasScheme(thumbnail[1])

NeedsManifest(item) ==
    ~HasValidThumbnail(item) /\ NormalizedField(Catalogue[item].recordid) # None

\* The search result was decoded and its records have been classified.
ResponseClassified == op = "generate_response" /\ gr_data # None

\* C17: each record of the page has exactly one of three outcomes: with a
\* normalized thumbnail that starts with http:// or https:// it yields an
\* ImageRecord at once and no fetch; otherwise with a non-null recordId it
\* triggers exactly one manifest fetch; otherwise it is dropped. The fetches
\* issued are those of the records without a valid thumbnail and with a
\* non-null recordId.
C17_ClassifiedThreeWays ==
    ResponseClassified =>
        LET items == DictGet(gr_data[1], "items", <<>>)
            fetches == SelectSeq(items, NeedsManifest)
            direct == SelectSeq(items, HasValidThumbnail)
        IN  /\ Len(gr_queue) = Len(fetches)
            /\ \A k \in 1..Len(fetches) :
                  gr_queue[k].recordId = NormalizedField(Catalogue[fetches[k]].recordid)
            /\ Len(gr_images) >= Len(direct)
            /\ \A k \in 1..Len(direct) :
                  /\ gr_images[k].thumbnailUrl =
                        NormalizedField(Catalogue[direct[k]].thumbnail)[1]
                  /\ gr_images[k].recordId =
                        NormalizedField(Catalogue[direct[k]].recordid)

\* C18: the display range printed in the "Showing results" line is computed
\* from the request offset o and page size 3: start = o + 1 and
\* end = min(total_results - o, o + 3).
C18_RangeFromRequestOffset ==
    ResponseComposed =>
        LET summary == gr_out[1].text
        IN  /\ summary.results_start = RequestOffset + 1
            /\ summary.results_end =
                  Min(summary.total_results - RequestOffset, RequestOffset + PageSize)

-----------------------------------------------------------------------------
(* Properties of error reporting and of paging *)

\* The backend is unreachable or answers with a non-2xx status.
TransportFailures ==
    { r \in BackendReplies : r.kind \in {"network_error", "http_status"} }

\* C19: the error payload returned after the backend answered with malformed
\* JSON differs from the one returned after a transport failure, for search
\* and for generate_response built on it.
C19_DecodingErrorDistinct ==
    /\ (op = "search" /\ se_pc = "returned" /\ se_reply.kind = "not_json") =>
          \A r \in TransportFailures : se_result # HandleSearchNli(se_args, r).payloads
    /\ (op = "generate_response" /\ gr_pc = "done" /\ gr_reply = "not_json") =>
          \A r \in TransportFailures :
              gr_out # ErrorPayload("Failed to parse search results: ",
                           JsonLoadsError(HandleSearchNli(SearchParams(gr_args), r).payloads[1].text))

\* C20: a consumer that starts at offset 0 and follows each continuation
\* payload visits strictly increasing offsets.
C20_OffsetsStrictlyIncrease ==
    op = "paging" =>
        \A i \in 1..(Len(pg_visited) - 1) : pg_visited[i] < pg_visited[i + 1]

=============================================================================
